---- MODULE Spec2Model ----
(***************************************************************************)
(* Model of the crate ethereum-private-key-to-address (src/src/lib.rs).    *)
(*                                                                         *)
(* A PrivateKey wraps a secp256k1 SecretKey.  It is built from text        *)
(* (FromStr), from a byte slice (from_slice) or through one of the From    *)
(* conversions, and it derives the public key and the Ethereum address.    *)
(*                                                                         *)
(* Text is a sequence of one-character strings, a byte buffer a sequence   *)
(* of numbers in 0..255.  The byte lengths are the real ones (32-byte      *)
(* scalar, 65-byte point, 32-byte digest).  The two cryptographic          *)
(* primitives the crate calls (base-point multiplication and Keccak-256)   *)
(* are external; they are represented by fixed deterministic stand-in      *)
(* functions of the right shapes, see PublicKeyFromSecretKey and           *)
(* Keccak256Digest.  The properties are about what the crate does around  *)
(* them: parsing, slicing, composition and formatting.                     *)
(***************************************************************************)
EXTENDS Integers, Sequences, FiniteSets, TLC

VARIABLES
    ctor,      \* per instance: the construction entry point last used
    input,     \* per instance: the external input given to it
    hexText,   \* per instance: the text handed to SecretKey::from_str
    status,    \* per instance: "none", "Ok", "Err" or "Panic"
    key,       \* per instance: the 32 bytes of the wrapped SecretKey
    out,       \* per instance and method: the latest value returned
    repeated,  \* per instance: the methods called more than once
    hashers,   \* storage of the Keccak256 hashers, by slot
    pc,        \* per thread: position inside a derivation call
    frame,     \* per thread: the locals of the derivation call
    ret        \* per thread: the value the last finished call returned

vars ==
    <<ctor, input, hexText, status, key, out, repeated, hashers, pc, frame, ret>>

----------------------------------------------------------------------------
(* Sizes fixed by the code. *)

\* [u8; 32]: the size of a secret key.
KeyLen == 32

\* [u8; 65]: the size of an uncompressed public key.
PointLen == 65

\* hasher.finalize(): the size of a Keccak-256 digest.
DigestLen == 32

\* &address[12..32]: first byte (0-based) of the address inside the digest.
AddrFrom == 12

\* &address[12..32]: end (exclusive) of the address inside the digest.
AddrTo == 32

\* serialize_uncompressed()[1..33]: end (exclusive) of the x-coordinate.
XEnd == 33

(* Bounds of the model. *)

\* Byte buffers of KeyLen - MaxLenDelta .. KeyLen + MaxLenDelta bytes are tried.
MaxLenDelta == 1

\* Number of threads (each with its own PrivateKey) in the concurrent runs.
NThreads == 2

----------------------------------------------------------------------------
(* Hexadecimal text. *)

LowerHex ==
    <<"0","1","2","3","4","5","6","7","8","9","a","b","c","d","e","f">>

UpperHex ==
    <<"0","1","2","3","4","5","6","7","8","9","A","B","C","D","E","F">>

HexDigits == {LowerHex[i] : i \in 1..16} \cup {UpperHex[i] : i \in 1..16}

\* hex::encode: two lowercase digits per byte, high nibble first.
HexEncode(b) ==
    [i \in 1..(2 * Len(b)) |->
        IF i % 2 = 1 THEN LowerHex[(b[(i + 1) \div 2] \div 16) + 1]
                     ELSE LowerHex[(b[(i + 1) \div 2] % 16) + 1]]

\* The value of a hex digit, either case (secp256k1's from_hex).
HexVal(c) == CHOOSE v \in 0..15 : LowerHex[v + 1] = c \/ UpperHex[v + 1] = c

Err == [ok |-> FALSE, key |-> <<>>]

Ok(k) == [ok |-> TRUE, key |-> k]

----------------------------------------------------------------------------
(* secp256k1::SecretKey. *)

\* The order n of the secp256k1 group, big-endian.
CurveOrder ==
    <<255,255,255,255, 255,255,255,255, 255,255,255,255, 255,255,255,254,
      186,174,220,230, 175, 72,160, 59, 191,210, 94,140, 208, 54, 65, 65>>

\* a < b for big-endian byte strings of equal length.
BytesLess(a, b) ==
    \E i \in 1..Len(a) :
        /\ a[i] < b[i]
        /\ \A j \in 1..(i - 1) : a[j] = b[j]

IsZero(b) == \A i \in 1..Len(b) : b[i] = 0

\* SecretKey::from_slice: exactly 32 bytes, a scalar in 1 .. n-1.
SecretKeyFromSlice(data) ==
    IF Len(data) # KeyLen THEN Err
    ELSE IF IsZero(data) \/ ~BytesLess(data, CurveOrder) THEN Err
    ELSE Ok(data)

\* from_hex taking the low nibble first (the mutant of FromHex).
FromHexSwapped(s) ==
    IF Len(s) % 2 = 1 \/ Len(s) > 2 * KeyLen THEN Err
    ELSE IF \E i \in 1..Len(s) : s[i] \notin HexDigits THEN Err
    ELSE Ok([i \in 1..(Len(s) \div 2) |->
                HexVal(s[2 * i - 1]) + 16 * HexVal(s[2 * i])])

\* from_hex: an even number of hex digits, at most 64, into bytes.
FromHex(s) ==
    IF Len(s) % 2 = 1 \/ Len(s) > 2 * KeyLen THEN Err
    ELSE IF \E i \in 1..Len(s) : s[i] \notin HexDigits THEN Err
    ELSE Ok([i \in 1..(Len(s) \div 2) |->
                16 * HexVal(s[2 * i - 1]) + HexVal(s[2 * i])])

\* SecretKey::from_str: 64 hex digits, then as from_slice.
SecretKeyFromStr(s) ==
    LET r == FromHex(s)
    IN  IF r.ok /\ Len(r.key) = KeyLen THEN SecretKeyFromSlice(r.key) ELSE Err

----------------------------------------------------------------------------
(* PrivateKey: construction. *)

RECURSIVE Replace0x(_)

\* No stripping at all (the mutant of Replace0x).
Keep0x(s) == s

\* s.replace("0x", ""): every non-overlapping occurrence, left to right,
\* is removed; the result is not scanned again.
Replace0x(s) ==
    IF Len(s) < 2 THEN s
    ELSE IF s[1] = "0" /\ s[2] = "x" THEN Replace0x(SubSeq(s, 3, Len(s)))
    ELSE <<s[1]>> \o Replace0x(Tail(s))

\* <PrivateKey as FromStr>::from_str: the outcome for text s, and the text
\* it hands to SecretKey::from_str.
from_str(s) ==
    LET private_key == Replace0x(s)
        r == SecretKeyFromStr(private_key)
    IN  [status |-> IF r.ok THEN "Ok" ELSE "Err", key |-> r.key,
         text |-> <<private_key>>]

\* PrivateKey::from_slice: the outcome for the bytes b.
from_slice(b) ==
    LET r == SecretKeyFromSlice(b)
    IN  [status |-> IF r.ok THEN "Ok" ELSE "Err", key |-> r.key,
         text |-> <<>>]

\* From<..>::from: SecretKey::from_slice(..).expect(..) panics on Err.
from_bytes(b) ==
    LET r == SecretKeyFromSlice(b)
    IN  [status |-> IF r.ok THEN "Ok" ELSE "Panic", key |-> r.key,
         text |-> <<>>]

----------------------------------------------------------------------------
(* The external primitives. *)

\* PublicKey::from_secret_key / SecretKey::public_key: the point k*G.
\* A stand-in: a fixed deterministic map from the 32-byte scalar to two
\* 32-byte coordinates.
PublicKeyFromSecretKey(k) ==
    [x |-> [i \in 1..KeyLen |-> (3 * k[i] + k[KeyLen + 1 - i] + i) % 256],
     y |-> [i \in 1..KeyLen |->
               (k[i] + 7 * k[(i % KeyLen) + 1] + 2 * i + 1) % 256]]

\* PublicKey::serialize_uncompressed: the marker 0x04, then x, then y.
SerializeUncompressed(pk) == <<4>> \o pk.x \o pk.y

RECURSIVE ByteSum(_, _, _)

\* The sum of the bytes of data at the positions lo..hi.
ByteSum(data, lo, hi) ==
    IF lo > hi THEN 0
    ELSE IF lo = hi THEN data[lo]
    ELSE ByteSum(data, lo, (lo + hi) \div 2)
             + ByteSum(data, ((lo + hi) \div 2) + 1, hi)

RECURSIVE PosSum(_, _, _)

\* The sum of the bytes of data at the positions lo..hi, each times its
\* position.
PosSum(data, lo, hi) ==
    IF lo > hi THEN 0
    ELSE IF lo = hi THEN lo * data[lo]
    ELSE PosSum(data, lo, (lo + hi) \div 2)
             + PosSum(data, ((lo + hi) \div 2) + 1, hi)

\* 32 bytes mixed from a length and two sums.
Mix(n, s0, s1) == [i \in 1..DigestLen |-> (n + 31 * i + i * s0 + s1) % 256]

\* The Keccak-256 digest of data.  A stand-in: a fixed deterministic map
\* from a byte string of any length to 32 bytes, which depends on every
\* byte of the input, on its position and on the length.
Keccak256Digest(data) ==
    Mix(Len(data), ByteSum(data, 1, Len(data)), PosSum(data, 1, Len(data)))

\* A hasher that keeps what the storage held (the mutant of KeccakNew).
KeccakReused(h) == h

\* Keccak256::new(): an empty hasher, whatever the storage held before.
KeccakNew(h) == <<>>

\* hasher.update(data): the data is appended to what was absorbed.
KeccakUpdate(h, data) == h \o data

\* hasher.finalize(): the digest of everything absorbed.
KeccakFinalize(h) == Keccak256Digest(h)

----------------------------------------------------------------------------
(* PrivateKey: derivation. *)

\* The Rust slice a[from..to] (0-based, to exclusive).
Slice(a, from, to) == SubSeq(a, from + 1, to)

\* serialize_uncompressed()[1..]: the point without its marker byte.
TailOfPoint(p) == Slice(p, 1, Len(p))

\* The leading 20 bytes of the digest (a mutant of AddressSlice).
AddressSliceLeading(d) == Slice(d, 0, AddrTo - AddrFrom)

\* One byte too many (a mutant of AddressSlice).
AddressSliceLong(d) == Slice(d, AddrFrom - 1, AddrTo)

\* &address[12..32]
AddressSlice(d) == Slice(d, AddrFrom, AddrTo)

\* [0..32]: the marker taken for a coordinate byte (the mutant of XOfPoint).
XOfPointShifted(p) == Slice(p, 0, XEnd - 1)

\* serialize_uncompressed()[1..33]
XOfPoint(p) == Slice(p, 1, XEnd)

\* serialize_uncompressed()[33..]
YOfPoint(p) == Slice(p, XEnd, Len(p))

\* addr.insert_str(0, "0x")
InsertStr0x(s) == <<"0", "x">> \o s

\* The serialized point of the key k, as every accessor computes it.
PointOf(k) == SerializeUncompressed(PublicKeyFromSecretKey(k))

\* The hasher of address() after update, started in storage holding h.
AddressHasher(k, h) == KeccakUpdate(KeccakNew(h), TailOfPoint(PointOf(k)))

\* PrivateKey::address, run in one piece on hasher storage holding h.
address(k, h) ==
    InsertStr0x(HexEncode(AddressSlice(KeccakFinalize(AddressHasher(k, h)))))

\* The text or bytes the accessor m makes of the serialized point p.
EncodePoint(m, p) ==
    CASE m = "public_key"       -> HexEncode(TailOfPoint(p))
      [] m = "public_key_full"  -> HexEncode(p)
      [] m = "public_key_x"     -> HexEncode(XOfPoint(p))
      [] m = "public_key_y"     -> HexEncode(YOfPoint(p))
      [] m = "public_key_slice" -> p

PointMethods ==
    {"public_key", "public_key_full", "public_key_x", "public_key_y",
     "public_key_slice"}

Methods == {"address"} \cup PointMethods

\* PrivateKey::public_key, public_key_full, public_key_x, public_key_y and
\* public_key_slice, each run in one piece: the value m returns for k.
PointMethodValue(m, k) == EncodePoint(m, PointOf(k))

----------------------------------------------------------------------------
(* The inputs tried. *)

ZeroKey == [i \in 1..KeyLen |-> 0]

OneKey == [i \in 1..KeyLen |-> IF i = KeyLen THEN 1 ELSE 0]

AllFF == [i \in 1..KeyLen |-> 255]

\* n - 1, the largest valid scalar.
OrderMinusOne == [CurveOrder EXCEPT ![KeyLen] = 64]

\* ac0974bec39a17e36ba4a6b4d238ff944bacb478cbed5efcae784d7bf4f2ff80
TestKey ==
    <<172,   9, 116, 190, 195, 154,  23, 227,
      107, 164, 166, 180, 210,  56, 255, 148,
       75, 172, 180, 120, 203, 237,  94, 252,
      174, 120,  77, 123, 244, 242, 255, 128>>

Keys32 == {ZeroKey, OneKey, OrderMinusOne, CurveOrder, AllFF, TestKey}

\* b cut or zero-padded to n bytes.
Resize(b, n) == [i \in 1..n |-> IF i <= Len(b) THEN b[i] ELSE 0]

\* What a &[u8] or a Vec<u8> can hold.
ByteInputs ==
    Keys32 \cup
    {Resize(TestKey, KeyLen + d) : d \in (0 - MaxLenDelta)..MaxLenDelta}

\* What a [u8; 32] can hold.
ArrayInputs == {b \in ByteInputs : Len(b) = KeyLen}

InsertAt(s, p, t) == SubSeq(s, 1, p) \o t \o SubSeq(s, p + 1, Len(s))

TestHex == HexEncode(TestKey)

\* Where a "0x" is put inside a 64-digit text.
EmbedAt == {1, KeyLen, 2 * KeyLen}

StrInputs ==
    {HexEncode(k) : k \in Keys32}
    \cup {<<"0", "x">> \o HexEncode(k) : k \in Keys32}
    \cup {InsertAt(HexEncode(k), p, <<"0", "x">>) :
              k \in {OneKey, TestKey}, p \in EmbedAt}
    \cup {<<"0", "x">> \o InsertAt(TestHex, KeyLen, <<"0", "x">>),
          <<"0", "x", "0", "x">> \o TestHex,
          <<"0", "0", "x", "x">> \o TestHex,
          <<"0", "X">> \o TestHex,
          [i \in 1..Len(TestHex) |->
              UpperHex[CHOOSE v \in 1..16 : LowerHex[v] = TestHex[i]]],
          [TestHex EXCEPT ![5] = "g"],
          SubSeq(TestHex, 1, 2 * KeyLen - 1),
          SubSeq(TestHex, 1, 2 * KeyLen - 2),
          <<>>}

----------------------------------------------------------------------------
(* The state machine. *)

\* The PrivateKey instances; in the concurrent runs, thread t owns instance t.
Insts == 1..NThreads

\* The two instances of the runs that build two keys.
Pair == {1, 2}

NoOut == [m \in Methods |-> <<>>]

NoRet == [method |-> "none", value |-> <<>>]

NoPoint == [x |-> <<>>, y |-> <<>>]

NoFrame ==
    [method |-> "none", secp |-> FALSE, public_key |-> NoPoint,
     data |-> <<>>, digest |-> <<>>, addr |-> <<>>]

\* A shared hasher (the mutant of HasherOf).
HasherShared(t) == 1

\* let mut hasher = Keccak256::new(): the hasher is a local of the call, so
\* the call on instance t has storage of its own.
HasherOf(t) == t

Init ==
    /\ ctor = [i \in Insts |-> "none"]
    /\ input = [i \in Insts |-> <<>>]
    /\ hexText = [i \in Insts |-> <<>>]
    /\ status = [i \in Insts |-> "none"]
    /\ key = [i \in Insts |-> <<>>]
    /\ out = [i \in Insts |-> NoOut]
    /\ repeated = [i \in Insts |-> {}]
    /\ hashers = [i \in Insts |-> <<>>]
    /\ pc = [i \in Insts |-> "idle"]
    /\ frame = [i \in Insts |-> NoFrame]
    /\ ret = [i \in Insts |-> NoRet]

\* A panic ends the program.
Alive == \A i \in Insts : status[i] # "Panic"

\* Instance i becomes what an entry point made of the input v.
Construct(i, v, r) ==
    /\ Alive
    /\ pc[i] = "idle"
    /\ input' = [input EXCEPT ![i] = v]
    /\ hexText' = [hexText EXCEPT ![i] = r.text]
    /\ status' = [status EXCEPT ![i] = r.status]
    /\ key' = [key EXCEPT ![i] = r.key]
    /\ out' = [out EXCEPT ![i] = NoOut]
    /\ repeated' = [repeated EXCEPT ![i] = {}]
    /\ UNCHANGED <<hashers, pc, frame, ret>>

\* PrivateKey::from_str(s)
FromStr(i, s) ==
    /\ ctor' = [ctor EXCEPT ![i] = "from_str"]
    /\ Construct(i, s, from_str(s))

\* PrivateKey::from_slice(b)
FromSlice(i, b) ==
    /\ ctor' = [ctor EXCEPT ![i] = "from_slice"]
    /\ Construct(i, b, from_slice(b))

\* PrivateKey::from(b) for b: &[u8]
FromSliceRef(i, b) ==
    /\ ctor' = [ctor EXCEPT ![i] = "from_ref_slice"]
    /\ Construct(i, b, from_bytes(b))

\* PrivateKey::from(b) for b: &[u8; 32]
FromArrayRef(i, b) ==
    /\ ctor' = [ctor EXCEPT ![i] = "from_ref_array"]
    /\ Construct(i, b, from_bytes(b))

\* PrivateKey::from(b) for b: [u8; 32]
FromArray(i, b) ==
    /\ ctor' = [ctor EXCEPT ![i] = "from_array"]
    /\ Construct(i, b, from_bytes(b))

\* PrivateKey::from(b) for b: Vec<u8>
FromVec(i, b) ==
    /\ ctor' = [ctor EXCEPT ![i] = "from_vec"]
    /\ Construct(i, b, from_bytes(b))

\* The derivation calls, each run in one piece.
Derive(i, m, v) ==
    /\ Alive
    /\ status[i] = "Ok"
    /\ pc[i] = "idle"
    /\ out' = [out EXCEPT ![i][m] = v]
    /\ repeated' = [repeated EXCEPT ![i] =
                       IF out[i][m] # <<>> THEN @ \cup {m} ELSE @]
    /\ UNCHANGED <<ctor, input, hexText, status, key, pc, frame, ret>>

\* private_key.address()
Address(i) ==
    /\ Derive(i, "address", address(key[i], hashers[HasherOf(i)]))
    /\ hashers' = [hashers EXCEPT ![HasherOf(i)] = AddressHasher(key[i], @)]

\* private_key.public_key()
PublicKey(i) ==
    /\ Derive(i, "public_key", PointMethodValue("public_key", key[i]))
    /\ UNCHANGED hashers

\* private_key.public_key_full()
PublicKeyFull(i) ==
    /\ Derive(i, "public_key_full", PointMethodValue("public_key_full", key[i]))
    /\ UNCHANGED hashers

\* private_key.public_key_x()
PublicKeyX(i) ==
    /\ Derive(i, "public_key_x", PointMethodValue("public_key_x", key[i]))
    /\ UNCHANGED hashers

\* private_key.public_key_y()
PublicKeyY(i) ==
    /\ Derive(i, "public_key_y", PointMethodValue("public_key_y", key[i]))
    /\ UNCHANGED hashers

\* private_key.public_key_slice()
PublicKeySlice(i) ==
    /\ Derive(i, "public_key_slice", PointMethodValue("public_key_slice", key[i]))
    /\ UNCHANGED hashers

\* Instance i has not been built yet.
Fresh(i) == ctor[i] = "none"

\* A program that builds one PrivateKey from some input and then calls its
\* derivations, in any order and any number of times.
Next ==
    \/ \E s \in StrInputs : Fresh(1) /\ FromStr(1, s)
    \/ \E b \in ByteInputs : Fresh(1) /\ FromSlice(1, b)
    \/ \E b \in ByteInputs : Fresh(1) /\ FromSliceRef(1, b)
    \/ \E b \in ArrayInputs : Fresh(1) /\ FromArrayRef(1, b)
    \/ \E b \in ArrayInputs : Fresh(1) /\ FromArray(1, b)
    \/ \E b \in ByteInputs : Fresh(1) /\ FromVec(1, b)
    \/ Address(1)
    \/ PublicKey(1)
    \/ PublicKeyFull(1)
    \/ PublicKeyX(1)
    \/ PublicKeyY(1)
    \/ PublicKeySlice(1)

Spec == Init /\ [][Next]_vars

----------------------------------------------------------------------------
(* A program that builds two PrivateKeys, each from some input, and calls
   one derivation on each. *)

\* Instance i has called no derivation yet.
Unused(i) == out[i] = NoOut

NextPair ==
    \E i \in Pair :
        \/ \E s \in StrInputs : Fresh(i) /\ FromStr(i, s)
        \/ \E b \in ByteInputs : Fresh(i) /\ FromSlice(i, b)
        \/ \E b \in ByteInputs : Fresh(i) /\ FromSliceRef(i, b)
        \/ \E b \in ArrayInputs : Fresh(i) /\ FromArrayRef(i, b)
        \/ \E b \in ArrayInputs : Fresh(i) /\ FromArray(i, b)
        \/ \E b \in ByteInputs : Fresh(i) /\ FromVec(i, b)
        \/ Unused(i) /\ Address(i)
        \/ Unused(i) /\ PublicKey(i)
        \/ Unused(i) /\ PublicKeyFull(i)
        \/ Unused(i) /\ PublicKeyX(i)
        \/ Unused(i) /\ PublicKeyY(i)
        \/ Unused(i) /\ PublicKeySlice(i)

SpecPair == Init /\ [][NextPair]_vars

----------------------------------------------------------------------------
(* Threads that each own a PrivateKey and call its derivations, one
   statement at a time. *)

\* The valid keys the threads hold, by thread.
ThreadKeys == <<TestKey, OneKey, OrderMinusOne>>

ThreadKey(t) == ThreadKeys[((t - 1) % Len(ThreadKeys)) + 1]

InitConc ==
    /\ ctor = [i \in Insts |-> "from_slice"]
    /\ input = [i \in Insts |-> ThreadKey(i)]
    /\ hexText = [i \in Insts |-> from_slice(ThreadKey(i)).text]
    /\ status = [i \in Insts |-> from_slice(ThreadKey(i)).status]
    /\ key = [i \in Insts |-> from_slice(ThreadKey(i)).key]
    /\ out = [i \in Insts |-> NoOut]
    /\ repeated = [i \in Insts |-> {}]
    /\ hashers = [i \in Insts |-> <<>>]
    /\ pc = [i \in Insts |-> "idle"]
    /\ frame = [i \in Insts |-> NoFrame]
    /\ ret = [i \in Insts |-> NoRet]

\* What no statement of a derivation touches.
KeyUnchanged == UNCHANGED <<ctor, input, hexText, status, key, out, repeated>>

\* Thread t calls the derivation m of its key.
Call(t, m) ==
    /\ pc[t] = "idle"
    /\ status[t] = "Ok"
    /\ pc' = [pc EXCEPT ![t] = "secp"]
    /\ frame' = [frame EXCEPT ![t] = [NoFrame EXCEPT !.method = m]]
    /\ ret' = [ret EXCEPT ![t] = NoRet]
    /\ UNCHANGED hashers
    /\ KeyUnchanged

\* let secp = Secp256k1::new();
SecpNew(t) ==
    /\ pc[t] = "secp"
    /\ pc' = [pc EXCEPT ![t] = "pubkey"]
    /\ frame' = [frame EXCEPT ![t].secp = TRUE]
    /\ UNCHANGED <<hashers, ret>>
    /\ KeyUnchanged

\* let public_key = PublicKey::from_secret_key(&secp, &self.private_key);
DerivePublicKey(t) ==
    /\ pc[t] = "pubkey"
    /\ frame[t].secp
    /\ pc' = [pc EXCEPT ![t] =
                 IF frame[t].method = "address" THEN "serialize" ELSE "encode"]
    /\ frame' = [frame EXCEPT ![t].public_key = PublicKeyFromSecretKey(key[t])]
    /\ UNCHANGED <<hashers, ret>>
    /\ KeyUnchanged

\* let public_key = public_key.serialize_uncompressed()[1..].to_vec();
SerializeTail(t) ==
    /\ pc[t] = "serialize"
    /\ pc' = [pc EXCEPT ![t] = "hasher_new"]
    /\ frame' = [frame EXCEPT ![t].data =
                    TailOfPoint(SerializeUncompressed(frame[t].public_key))]
    /\ UNCHANGED <<hashers, ret>>
    /\ KeyUnchanged

\* let mut hasher = Keccak256::new();
HasherNew(t) ==
    /\ pc[t] = "hasher_new"
    /\ pc' = [pc EXCEPT ![t] = "update"]
    /\ hashers' = [hashers EXCEPT ![HasherOf(t)] = KeccakNew(@)]
    /\ UNCHANGED <<frame, ret>>
    /\ KeyUnchanged

\* hasher.update(public_key);
HasherUpdate(t) ==
    /\ pc[t] = "update"
    /\ pc' = [pc EXCEPT ![t] = "finalize"]
    /\ hashers' = [hashers EXCEPT ![HasherOf(t)] = KeccakUpdate(@, frame[t].data)]
    /\ UNCHANGED <<frame, ret>>
    /\ KeyUnchanged

\* let address = hasher.finalize();
HasherFinalize(t) ==
    /\ pc[t] = "finalize"
    /\ pc' = [pc EXCEPT ![t] = "hex"]
    /\ frame' = [frame EXCEPT ![t].digest = KeccakFinalize(hashers[HasherOf(t)])]
    /\ UNCHANGED <<hashers, ret>>
    /\ KeyUnchanged

\* let mut addr = hex::encode(&address[12..32]);
EncodeAddress(t) ==
    /\ pc[t] = "hex"
    /\ pc' = [pc EXCEPT ![t] = "prefix"]
    /\ frame' = [frame EXCEPT ![t].addr = HexEncode(AddressSlice(frame[t].digest))]
    /\ UNCHANGED <<hashers, ret>>
    /\ KeyUnchanged

\* addr.insert_str(0, "0x");
InsertPrefix(t) ==
    /\ pc[t] = "prefix"
    /\ pc' = [pc EXCEPT ![t] = "return"]
    /\ frame' = [frame EXCEPT ![t].addr = InsertStr0x(@)]
    /\ UNCHANGED <<hashers, ret>>
    /\ KeyUnchanged

\* addr (the value of address())
ReturnAddress(t) ==
    /\ pc[t] = "return"
    /\ pc' = [pc EXCEPT ![t] = "idle"]
    /\ ret' = [ret EXCEPT ![t] = [method |-> "address", value |-> frame[t].addr]]
    /\ frame' = [frame EXCEPT ![t] = NoFrame]
    /\ UNCHANGED hashers
    /\ KeyUnchanged

\* hex::encode(&public_key.serialize_uncompressed()[..]) and the like: the
\* last expression of the five public key accessors.
ReturnPoint(t) ==
    /\ pc[t] = "encode"
    /\ pc' = [pc EXCEPT ![t] = "idle"]
    /\ ret' = [ret EXCEPT ![t] =
                  [method |-> frame[t].method,
                   value |-> EncodePoint(frame[t].method,
                                 SerializeUncompressed(frame[t].public_key))]]
    /\ frame' = [frame EXCEPT ![t] = NoFrame]
    /\ UNCHANGED hashers
    /\ KeyUnchanged

NextConc ==
    \E t \in Insts :
        \/ \E m \in Methods : Call(t, m)
        \/ SecpNew(t)
        \/ DerivePublicKey(t)
        \/ SerializeTail(t)
        \/ HasherNew(t)
        \/ HasherUpdate(t)
        \/ HasherFinalize(t)
        \/ EncodeAddress(t)
        \/ InsertPrefix(t)
        \/ ReturnAddress(t)
        \/ ReturnPoint(t)

SpecConc == InitConc /\ [][NextConc]_vars

----------------------------------------------------------------------------
(* The properties. *)

ByteCtors ==
    {"from_slice", "from_ref_slice", "from_ref_array", "from_array", "from_vec"}

\* b is a scalar in 1 .. n-1 written on exactly 32 bytes.
ValidKeyBytes(b) ==
    /\ Len(b) = KeyLen
    /\ \E i \in 1..Len(b) : b[i] # 0
    /\ BytesLess(b, CurveOrder)

IsHex(s) == \A i \in 1..Len(s) : s[i] \in HexDigits

IsLowerHex(s) == \A i \in 1..Len(s) : s[i] \in {LowerHex[v] : v \in 1..16}

\* s is 64 hex digits.
IsHex64(s) == Len(s) = 2 * KeyLen /\ IsHex(s)

\* The bytes that 64 hex digits spell.
BytesOfHex(s) ==
    [i \in 1..(Len(s) \div 2) |-> 16 * HexVal(s[2 * i - 1]) + HexVal(s[2 * i])]

\* The text s, once a leading "0x" is taken away, is a valid key.
ValidKeyText(s) ==
    LET t == IF Len(s) >= 2 /\ SubSeq(s, 1, 2) = <<"0", "x">>
             THEN SubSeq(s, 3, Len(s)) ELSE s
    IN  IsHex64(t) /\ ValidKeyBytes(BytesOfHex(t))

\* C1: no construction entry point aborts on invalid input: none of from_str,
\* from_slice and the From conversions ever ends in a panic.
C1_NoConstructorPanics == \A i \in Insts : status[i] # "Panic"

\* C2: from_str removes only a leading "0x": the text it hands to the hex
\* decoder is the input without its leading "0x", if it has one, and the
\* input itself otherwise.
C2_OnlyLeadingPrefixStripped ==
    \A i \in Insts :
        ctor[i] = "from_str" =>
            hexText[i] =
                <<IF Len(input[i]) >= 2 /\ SubSeq(input[i], 1, 2) = <<"0", "x">>
                  THEN SubSeq(input[i], 3, Len(input[i])) ELSE input[i]>>

\* C3: no invalid input yields a PrivateKey: a key is built only from a
\* 32-byte buffer holding a scalar in 1 .. n-1, or from a text that, after
\* its leading "0x" is taken away, is 64 hex digits spelling such a scalar.
C3_InvalidInputRejected ==
    \A i \in Insts :
        status[i] = "Ok" =>
            IF ctor[i] = "from_str" THEN ValidKeyText(input[i])
                                    ELSE ValidKeyBytes(input[i])

\* Bytes 12 through 31 of Keccak256(x || y) for the key k.
KeccakTail(k) ==
    LET P == PublicKeyFromSecretKey(k)
        digest == Keccak256Digest(P.x \o P.y)
    IN  [j \in 1..20 |-> digest[12 + j]]

\* C4: address() is "0x" followed by the lowercase hex of bytes 12 through
\* 31 of Keccak256 of the 64-byte x || y.
C4_AddressIsKeccakTail ==
    \A i \in Insts :
        out[i]["address"] # <<>> =>
            /\ out[i]["address"] = <<"0", "x">> \o HexEncode(KeccakTail(key[i]))
            /\ IsLowerHex(SubSeq(out[i]["address"], 3, Len(out[i]["address"])))

C4_Witness ==
    /\ status[1] = "Ok"
    /\ key[1] = TestKey
    /\ out[1]["address"] # <<>>

\* Two instances agree on every derivation both have called.
SameResults(i, j) ==
    \A m \in Methods :
        (out[i][m] # <<>> /\ out[j][m] # <<>>) => out[i][m] = out[j][m]

\* C5: for 64 hex digits h, from_str(h) and from_str("0x" + h) both fail or
\* both succeed with equal keys, hence with equal derived values.
C5_PrefixedParsesTheSame ==
    \A i \in Pair : \A j \in Pair :
        (/\ ctor[i] = "from_str"
         /\ ctor[j] = "from_str"
         /\ IsHex64(input[i])
         /\ input[j] = <<"0", "x">> \o input[i])
        => /\ status[i] = status[j]
           /\ key[i] = key[j]
           /\ SameResults(i, j)

C5_Witness ==
    /\ ctor[1] = "from_str"
    /\ ctor[2] = "from_str"
    /\ input[1] = TestHex
    /\ input[2] = <<"0", "x">> \o TestHex
    /\ status[1] = "Ok"
    /\ status[2] = "Ok"
    /\ out[1]["address"] # <<>>
    /\ out[2]["address"] # <<>>

\* C6: for a valid 32-byte key k, the key from_str makes of the hex text of
\* k and the key from_slice or a From conversion makes of the bytes of k are
\* equal, and every derivation gives the same value on both.
C6_TextAndBytesAgree ==
    \A i \in Pair : \A j \in Pair :
        (/\ ctor[i] = "from_str"
         /\ ctor[j] \in ByteCtors
         /\ ValidKeyBytes(input[j])
         /\ input[i] = HexEncode(input[j]))
        => /\ status[i] = "Ok"
           /\ status[j] = "Ok"
           /\ key[i] = key[j]
           /\ SameResults(i, j)

C6_Witness ==
    /\ ctor[1] = "from_str"
    /\ ctor[2] = "from_vec"
    /\ input[2] = TestKey
    /\ input[1] = HexEncode(TestKey)
    /\ out[1]["public_key"] # <<>>
    /\ out[2]["public_key"] # <<>>

\* v is empty (not returned yet) or n lowercase hex digits.
HexOfLen(v, n) == v # <<>> => (Len(v) = n /\ IsLowerHex(v))

\* C7: the lengths are fixed: address() is "0x" and 40 hex digits, 42
\* characters; public_key() 128 hex digits; public_key_full() 130;
\* public_key_x() and public_key_y() 64 each; public_key_slice() 65 bytes.
C7_Lengths ==
    \A i \in Insts :
        /\ out[i]["address"] # <<>> =>
               /\ Len(out[i]["address"]) = 42
               /\ SubSeq(out[i]["address"], 1, 2) = <<"0", "x">>
               /\ HexOfLen(SubSeq(out[i]["address"], 3, Len(out[i]["address"])), 40)
        /\ HexOfLen(out[i]["public_key"], 128)
        /\ HexOfLen(out[i]["public_key_full"], 130)
        /\ HexOfLen(out[i]["public_key_x"], 64)
        /\ HexOfLen(out[i]["public_key_y"], 64)
        /\ out[i]["public_key_slice"] # <<>> =>
               Len(out[i]["public_key_slice"]) = PointLen

AllCalled(i) == \A m \in Methods : out[i][m] # <<>>

C7_Witness == status[1] = "Ok" /\ AllCalled(1) /\ key[1] = OrderMinusOne

\* C8: a derivation called again, whatever was called in between, returns
\* what it returned before, and no derivation call changes the key.
C8_Deterministic ==
    [][\A i \in Insts :
          /\ \A m \in Methods :
                 (out[i][m] # <<>> /\ out'[i][m] # <<>>) => out'[i][m] = out[i][m]
          /\ (out'[i] # out[i] \/ repeated'[i] # repeated[i]) /\ out'[i] # NoOut
                 => (key'[i] = key[i] /\ status'[i] = status[i])]_vars

C8_Witness == status[1] = "Ok" /\ AllCalled(1) /\ repeated[1] = Methods

\* The value the derivation m returns for the key k when run alone.
Alone(m, k) == IF m = "address" THEN address(k, <<>>) ELSE PointMethodValue(m, k)

\* C9: under every interleaving of the statements of concurrent derivation
\* calls on distinct PrivateKeys, each call returns what it returns alone.
C9_NoInterference ==
    \A t \in Insts :
        ret[t].method # "none" => ret[t].value = Alone(ret[t].method, key[t])

\* Thread 1 went through a whole address() while thread 2 was inside its own,
\* between update and finalize.
C9_Witness ==
    /\ ret[1].method = "address"
    /\ frame[2].method = "address"
    /\ pc[2] = "finalize"

\* C10: the public key accessors are slices of one 65-byte point:
\* public_key_full() is the hex of public_key_slice() and starts with 04;
\* public_key() is public_key_full() without its first two characters, and
\* public_key_x() followed by public_key_y(); x is bytes 1..32 and y bytes
\* 33..64 of the point; none starts with 0x.
C10_ConsistentSlices ==
    \A i \in Insts :
        LET full == out[i]["public_key_full"]
            pk == out[i]["public_key"]
            x == out[i]["public_key_x"]
            y == out[i]["public_key_y"]
            pt == out[i]["public_key_slice"]
        IN  /\ (full # <<>> /\ pt # <<>>) => full = HexEncode(pt)
            /\ full # <<>> => SubSeq(full, 1, 2) = <<"0", "4">>
            /\ (pk # <<>> /\ full # <<>>) => pk = SubSeq(full, 3, Len(full))
            /\ (pk # <<>> /\ x # <<>> /\ y # <<>>) => pk = x \o y
            /\ (x # <<>> /\ pt # <<>>) => x = HexEncode([j \in 1..32 |-> pt[1 + j]])
            /\ (y # <<>> /\ pt # <<>>) => y = HexEncode([j \in 1..32 |-> pt[33 + j]])
            /\ \A m \in PointMethods \ {"public_key_slice"} :
                   out[i][m] # <<>> => SubSeq(out[i][m], 1, 2) # <<"0", "x">>

C10_Witness == status[1] = "Ok" /\ AllCalled(1) /\ key[1] = TestKey

====
